---- MODULE Spec2Model ----
(***************************************************************************)
(* Retrieval-augmented answering service: ingestion into the vector index  *)
(* (chunk -> embed -> upsert) and the query pipeline (embed -> search ->   *)
(* generate -> evaluate -> fallback gate).  Texts are sequences of         *)
(* one-character strings; index ids are strings built as the code builds   *)
(* them; a confidence is kept in hundredths (0.65 is 65).                  *)
(***************************************************************************)
EXTENDS Integers, Sequences, FiniteSets, TLC

(* ------------------------------ bounds --------------------------------- *)

\* Largest number of files the data directory holds at one ingestion, in the
\* specification of retrieval.
MaxDocs == 3

\* The same, in the specification of the whole query pipeline.
MaxDocsQuery == 2

\* Number of ingestion requests in one behaviour of the whole query pipeline.
MaxIngests == 1

\* The same, in the specification of retrieval.
MaxIngestsRetrieval == 2

\* The same, in the specification of ingestion alone.
MaxIngestsLogged == 2

\* Largest number of files at one ingestion, and number of ingestions, in
\* the specification of concurrent queries.
MaxDocsConcurrent == 1

MaxIngestsConcurrent == 1

\* Largest chunk_size of a call of chunk_documents on the short texts.
MaxChunkSize == 4

\* Largest number of documents in such a call.
MaxChunkDocs == 3

\* Largest chunk_size and largest overlap of a call of chunk_text.
MaxWindow == 3

\* Number of chunks after which a run of chunk_text is no longer followed.
MaxChunks == 6

\* Largest position of a chunk in a batch for which ids are compared.
MaxPosition == 11

\* Number of HTTP requests the metrics middleware sees in one behaviour.
MaxHttpRequests == 3

\* Number of calls made to a LocalStorage in one behaviour.
MaxStorageOps == 3

\* Largest number of context items in a call of assemble_context_block.
MaxContexts == 3

(* --------------------------- program constants -------------------------- *)

\* top_k=5 in search()
TopK == 5

\* 0.65 in query(), in hundredths
FallbackThreshold == 65

\* chunk_size=500, the default of chunk_documents that ingest() relies on
DefaultChunkSize == 500

\* max_chars=3000, the default of assemble_context_block
DefaultMaxChars == 3000

\* The characters piece[: max_chars - 100] gives up for the truncation marker.
TruncationReserve == 100

\* overlap=50, the default of chunk_text
DefaultOverlap == 50

(* ------------------------------- inputs --------------------------------- *)

Requests == {"r1", "r2"}

\* The requests the sequential specification runs.
SoloRequests == {"r1"}

Collections == {"c", "c-1"}

\* Collection names whose ids are compared: with '-' and digits at their
\* end, one the id of another, one empty.
IdCollections == Collections \cup {"c-1-0", "c-", "c1", "1", "-", ""}

\* The collection of the specification of concurrent queries.
ConcurrentCollections == {"c"}

TextA == <<"r", "a", "g", " ", "u", "s", "e", "s", " ", "s", "e", "a", "r", "c", "h">>
TextB == <<"f", "a", "q">>
TextC == <<"n", "o", " ", "d", "a", "t", "a">>

\* The files the data directory may hold.
DocPool ==
    { [source |-> "a.txt", text |-> TextA],
      [source |-> "b.txt", text |-> TextB],
      [source |-> "c.txt", text |-> TextC] }

\* The files it may hold in the specification of the whole query pipeline.
QueryDocPool ==
    { [source |-> "a.txt", text |-> TextA],
      [source |-> "b.txt", text |-> TextB] }

\* A text of 1200 characters.
TextLong == [ i \in 1 .. 1200 |-> IF i % 2 = 1 THEN "a" ELSE "b" ]

\* The documents chunk_documents may be called with: the files above and a
\* file that is empty.
ChunkDocPool == DocPool \cup { [source |-> "e.txt", text |-> <<>>] }

\* Texts chunk_text may be called with: five words, two words among blanks,
\* blanks alone, nothing.
WordTexts ==
    { <<"a", " ", "b", " ", "c", " ", "d", " ", "e">>,
      <<" ", "a", "b", " ", " ", "c", " ">>,
      <<" ", " ">>,
      <<>> }

\* The context items assemble_context_block may be called with; formatted
\* they have 10, 9, 116 and 205 characters.
ContextPool ==
    { [id |-> <<"d", "1">>, content |-> <<"a", "l", "p", "h", "a">>],
      [id |-> <<"d", "2">>, content |-> <<" ", "b", "e", "t", "a", "\n">>],
      [id |-> <<"d", "3">>, content |-> [ i \in 1 .. 111 |-> "x" ]],
      [id |-> <<"d", "4">>, content |-> [ i \in 1 .. 200 |-> "y" ]] }

\* The max_chars it may be called with.
MaxCharsChoices == {30, 50, 120, DefaultMaxChars}

\* Path components: names are texts, ".." is the parent.
Up == <<".", ".">>
NameA == <<"a">>
NameB == <<"b">>

\* The resolved root of the LocalStorage, as the components of "/d".
RootPath == << <<"d">> >>

\* The keys a LocalStorage may be called with: "a", "b", "a/b", "../d2/a"
\* (a directory beside the root whose name starts with the root's) and
\* "../e/a" (another directory beside the root).
StorageKeys ==
    { <<NameA>>, <<NameB>>, <<NameA, NameB>>,
      <<Up, <<"d", "2">>, NameA>>, <<Up, <<"e">>, NameA>> }

\* The bytes an upload may carry.
StorageData == {1, 2}

\* The prefixes list_keys may be called with; the empty one stands for None.
StoragePrefixes == {<<>>, <<"a">>}

\* The HTTP requests that pass the metrics middleware, their paths, and the
\* status codes a handler may answer with.
HttpRequests == 1 .. MaxHttpRequests

HttpPaths == {"/query", "/ingest"}

HandlerStatusCodes == {"200", "404"}

\* status_code = "500", the label of a request whose handler raised
RaisedStatusCode == "500"

QuestionWhat == <<"w", "h", "a", "t", "?">>

Questions == {QuestionWhat}

\* The k a caller may ask for; 5 is the documented default.
RequestedK == {2, 5}

Ans64 == <<"R", "A", "G", " ", "U", "S", "E">>
Ans65 == <<"r", "a", "g", " ", "u", "s", "e", "s", " ", "s", "q", "l", " ", "d", "d", "l">>

\* Texts the completion provider may return, besides echoing its context.
AnswerPool == {<<>>, Ans64, Ans65}

\* The answer of the refusal envelope in query(); its typographic apostrophe
\* is written "'" here.
RefusalText ==
    <<"I", " ", "d", "o", "n", "'", "t", " ", "h", "a", "v", "e", " ",
      "e", "n", "o", "u", "g", "h", " ", "i", "n", "f", "o", "r", "m",
      "a", "t", "i", "o", "n", " ", "t", "o", " ", "a", "n", "s", "w",
      "e", "r", " ", "c", "o", "n", "f", "i", "d", "e", "n", "t", "l",
      "y", ".">>

(* ------------------------------ helpers --------------------------------- *)

Min(a, b) == IF a < b THEN a ELSE b

Abs(n) == IF n < 0 THEN 0 - n ELSE n

Range(s) == { s[i] : i \in DOMAIN s }

\* str.startswith: text begins with part.
StartsWith(text, part) == Len(part) <= Len(text) /\ SubSeq(text, 1, Len(part)) = part

\* A slice that takes one character more.
SliceInclusive(text, lo, hi) == SubSeq(text, lo + 1, Min(hi + 1, Len(text)))

\* text[lo:hi] of Python, 0-based and clamped to the text.
Slice(text, lo, hi) == SubSeq(text, lo + 1, Min(hi, Len(text)))

\* All orders of the elements of a finite set.
RECURSIVE Orders(_)
Orders(S) ==
    IF S = {} THEN {<<>>}
    ELSE UNION { { <<e>> \o rest : rest \in Orders(S \ {e}) } : e \in S }

\* Sequences of pairwise different elements of S, of length at most n.
RECURSIVE DistinctSeqs(_, _)
DistinctSeqs(S, n) ==
    IF n = 0 \/ S = {} THEN {<<>>}
    ELSE {<<>>} \cup
         UNION { { <<e>> \o rest : rest \in DistinctSeqs(S \ {e}, n - 1) } : e \in S }

(* ------------------------------ ingestion ------------------------------- *)

\* load_documents: the files of the data directory, in the order glob yields.
load_documents(pool, n) == DistinctSeqs(pool, n)

\* A loop that stops before a window the text does not fill.
RECURSIVE ChunkFromWhole(_, _, _)
ChunkFromWhole(doc, i, chunk_size) ==
    IF i + chunk_size > Len(doc.text) THEN <<>>
    ELSE << [text |-> Slice(doc.text, i, i + chunk_size), source |-> doc.source] >>
         \o ChunkFromWhole(doc, i + chunk_size, chunk_size)

\* The inner loop of chunk_documents: for i in range(0, len(text), chunk_size).
RECURSIVE ChunkFrom(_, _, _)
ChunkFrom(doc, i, chunk_size) ==
    IF i >= Len(doc.text) THEN <<>>
    ELSE << [text |-> Slice(doc.text, i, i + chunk_size), source |-> doc.source] >>
         \o ChunkFrom(doc, i + chunk_size, chunk_size)

\* A chunker that labels the chunks of every document with one source.
RECURSIVE chunk_documentsOneSource(_, _)
chunk_documentsOneSource(docs, chunk_size) ==
    IF docs = <<>> THEN <<>>
    ELSE ChunkFrom([Head(docs) EXCEPT !.source = "a.txt"], 0, chunk_size)
         \o chunk_documentsOneSource(Tail(docs), chunk_size)

RECURSIVE chunk_documents(_, _)
chunk_documents(docs, chunk_size) ==
    IF docs = <<>> THEN <<>>
    ELSE ChunkFrom(Head(docs), 0, chunk_size) \o chunk_documents(Tail(docs), chunk_size)

\* The embedding provider, as the repository's test double: one float, len(t).
EmbedText(t) == Len(t)

\* An id made of the position alone.
FormatIdOfPosition(collection, i) == ToString(i)

\* f"{collection}-{i}"
FormatId(collection, i) == collection \o "-" \o ToString(i)

\* Documents that pair the chunks with the vectors from the other end.
UploadDocsCrossed(vectors, chunks, collection) ==
    [ n \in 1..Len(vectors) |->
        [ id      |-> FormatId(collection, n - 1),
          content |-> chunks[n].text,
          source  |-> chunks[n].source,
          vector  |-> vectors[Len(vectors) - n + 1] ] ]

\* The documents upload_embeddings builds, position i of the batch being 0-based.
UploadDocs(vectors, chunks, collection) ==
    [ n \in 1..Len(vectors) |->
        [ id      |-> FormatId(collection, n - 1),
          content |-> chunks[n].text,
          source  |-> chunks[n].source,
          vector  |-> vectors[n] ] ]

\* An upload that adds the documents and replaces none.
upload_embeddingsAdding(idx, vectors, chunks, collection) ==
    idx \cup Range(UploadDocs(vectors, chunks, collection))

\* upload_documents of the search index: a document replaces the one with its id.
upload_embeddings(idx, vectors, chunks, collection) ==
    LET docs == UploadDocs(vectors, chunks, collection)
        ids  == { docs[n].id : n \in DOMAIN docs }
    IN  { e \in idx : e.id \notin ids } \cup Range(docs)

\* embed_and_store: one embedding call for all chunk texts, then the upload.
embed_and_store(idx, chunks, collection) ==
    LET texts   == [ n \in DOMAIN chunks |-> chunks[n].text ]
        vectors == [ n \in DOMAIN texts |-> EmbedText(texts[n]) ]
    IN  upload_embeddings(idx, vectors, chunks, collection)

(* ------------------------- word-window chunking ------------------------- *)

Whitespace == {" ", "\n", "\t"}

\* str.split(): the maximal runs of characters that are not whitespace; cur
\* is the run being read.
RECURSIVE SplitFrom(_, _)
SplitFrom(rest, cur) ==
    IF rest = <<>> THEN (IF cur = <<>> THEN <<>> ELSE <<cur>>)
    ELSE IF Head(rest) \in Whitespace
         THEN (IF cur = <<>> THEN <<>> ELSE <<cur>>) \o SplitFrom(Tail(rest), <<>>)
         ELSE SplitFrom(Tail(rest), Append(cur, Head(rest)))

Split(text) == SplitFrom(text, <<>>)

\* " ".join(words)
RECURSIVE JoinWords(_)
JoinWords(words) ==
    IF words = <<>> THEN <<>>
    ELSE IF Len(words) = 1 THEN words[1]
    ELSE words[1] \o <<" ">> \o JoinWords(Tail(words))

\* A window that steps back by one word more than the overlap.
NextStartWider(end, overlap) == IF end - overlap - 1 < 0 THEN 0 ELSE end - overlap - 1

\* start = end - overlap; if start < 0: start = 0
NextStart(end, overlap) == IF end - overlap < 0 THEN 0 ELSE end - overlap

\* The calls embed_and_store makes to the embedding provider, each by its
\* input: one call, with the texts of all chunks.
EmbeddingInputs(chunks) == << [ n \in DOMAIN chunks |-> chunks[n].text ] >>

(* ------------------------------ retrieval ------------------------------- *)

\* Similarity of the vector index: closer vectors score higher.
Score(query_vector, vector) == 0 - Abs(query_vector - vector)

Hit(e, query_vector) ==
    [ id      |-> e.id,
      content |-> e.content,
      source  |-> e.source,
      score   |-> Score(query_vector, e.vector) ]

\* The ranked answers the index may give for the n nearest entries of S:
\* best score first, entries of equal score in any order.
RECURSIVE Rankings(_, _, _)
Rankings(S, query_vector, n) ==
    IF n = 0 \/ S = {} THEN {<<>>}
    ELSE LET best == { e \in S : \A f \in S :
                         Score(query_vector, f.vector) <= Score(query_vector, e.vector) }
         IN  UNION { { <<Hit(e, query_vector)>> \o rest :
                         rest \in Rankings(S \ {e}, query_vector, n - 1) } : e \in best }

\* search(query_vector): the whole index is searched with top_k=5; the
\* function takes no collection and no k.
search(idx, query_vector) == Rankings(idx, query_vector, TopK)

\* A join with a blank between the parts.
RECURSIVE JoinBlank(_)
JoinBlank(parts) ==
    IF parts = <<>> THEN <<>>
    ELSE IF Len(parts) = 1 THEN parts[1]
    ELSE parts[1] \o <<" ">> \o JoinBlank(Tail(parts))

\* "\n".join(parts)
RECURSIVE JoinNewline(_)
JoinNewline(parts) ==
    IF parts = <<>> THEN <<>>
    ELSE IF Len(parts) = 1 THEN parts[1]
    ELSE parts[1] \o <<"\n">> \o JoinNewline(Tail(parts))

\* A context that stands a placeholder in for no results.
ContextOrPlaceholder(results) ==
    IF results = <<>> THEN <<"[", "]">>
    ELSE JoinNewline([ n \in DOMAIN results |-> results[n].content ])

\* The context string of retrieve_context: the contents of the results, joined.
ContextOf(results) == JoinNewline([ n \in DOMAIN results |-> results[n].content ])

\* Citations kept as collected, without the set.
CitationListsNoDedup(results) == { [ n \in DOMAIN results |-> results[n].source ] }

\* list(set(citations)): each source once, in the order the set iterates.
CitationLists(results) == Orders({ results[n].source : n \in DOMAIN results })

(* ------------------------------ generation ------------------------------ *)

\* What the completion provider may answer to a prompt built around context.
CompletionOutputs(context) == AnswerPool \cup {context}

(* ------------------------------ evaluation ------------------------------ *)

LowerMap ==
    [ c \in {"A", "E", "G", "I", "R", "S", "U"} |->
        CASE c = "A" -> "a" [] c = "E" -> "e" [] c = "G" -> "g" [] c = "I" -> "i"
          [] c = "R" -> "r" [] c = "S" -> "s" [] c = "U" -> "u" ]

\* str.lower()
Lower(text) ==
    [ n \in DOMAIN text |-> IF text[n] \in DOMAIN LowerMap THEN LowerMap[text[n]] ELSE text[n] ]

\* Length of the common run of a from i and b from j (0-based), inside
\* a[..ahi) and b[..bhi).
RunLength(a, b, i, j, ahi, bhi) ==
    CHOOSE n \in 0 .. Min(ahi - i, bhi - j) :
        /\ \A t \in 0 .. n - 1 : a[i + t + 1] = b[j + t + 1]
        /\ n = Min(ahi - i, bhi - j) \/ a[i + n + 1] # b[j + n + 1]

SetMin(S) == CHOOSE x \in S : \A y \in S : x <= y

\* The element of a set of one element.
TheOne(S) == CHOOSE x \in S : TRUE

\* The order find_longest_match puts on blocks, as a number with digits of
\* base w, the smaller the better: a longer block first, then one starting
\* earlier in a, then one starting earlier in b.
BlockRank(i, j, size, w) == (w - size) * w * w + i * w + j

\* The ranks of the blocks that start where a and b agree.
BlockRanks(a, b, alo, ahi, blo, bhi, w) ==
    UNION { { BlockRank(i, j, RunLength(a, b, i, j, ahi, bhi), w) :
                j \in { jj \in blo .. bhi - 1 : a[i + 1] = b[jj + 1] } } :
            i \in alo .. ahi - 1 }

\* SequenceMatcher.find_longest_match without junk: the longest block
\* a[i:i+k] = b[j:j+k] in a[alo:ahi], b[blo:bhi]; of the longest, the one
\* starting earliest in a, and of those the one starting earliest in b;
\* (alo, blo, 0) when a and b agree nowhere.
FindLongestMatch(a, b, alo, ahi, blo, bhi) ==
    TheOne({ IF ranks = {} THEN [i |-> alo, j |-> blo, k |-> 0]
             ELSE TheOne({ [ i |-> (best % (w * w)) \div w,
                             j |-> best % w,
                             k |-> w - (best \div (w * w)) ] : best \in {SetMin(ranks)} }) :
             w \in {Len(a) + Len(b) + 1},
             ranks \in {BlockRanks(a, b, alo, ahi, blo, bhi, Len(a) + Len(b) + 1)} })

\* The ranges get_matching_blocks queues after the match m of the range q:
\* what lies to the left of the match and what lies to its right.
QueuedAfter(q, m) ==
    (IF m.k > 0 /\ q.alo < m.i /\ q.blo < m.j
     THEN << [alo |-> q.alo, ahi |-> m.i, blo |-> q.blo, bhi |-> m.j] >>
     ELSE <<>>)
    \o
    (IF m.k > 0 /\ m.i + m.k < q.ahi /\ m.j + m.k < q.bhi
     THEN << [alo |-> m.i + m.k, ahi |-> q.ahi, blo |-> m.j + m.k, bhi |-> q.bhi] >>
     ELSE <<>>)

\* Sum of the sizes of SequenceMatcher.get_matching_blocks: a queue of
\* ranges (alo, ahi, blo, bhi); the last is taken, its longest match is
\* counted, and the ranges around the match are queued.
RECURSIVE MatchingChars(_, _, _)
MatchingChars(a, b, queue) ==
    IF queue = <<>> THEN 0
    ELSE TheOne({ TheOne({ m.k + TheOne({ MatchingChars(a, b, rest) :
                                            rest \in { SubSeq(queue, 1, Len(queue) - 1)
                                                       \o QueuedAfter(q, m) } }) :
                           m \in { FindLongestMatch(a, b, q.alo, q.ahi, q.blo, q.bhi) } }) :
                  q \in { queue[Len(queue)] } })

\* Odd n for which the float nearest to n/200 lies above n/200, so that
\* round(., 2) goes up; n/200 with n a multiple of 25 is exact in binary.
TiesRoundedUp ==
    { 1, 5, 7, 11, 13, 17, 19, 23, 27, 33, 39, 45, 51, 53, 55, 63, 65, 67,
      77, 79, 81, 89, 91, 93, 101, 103, 105, 107, 109, 111, 127, 129, 131,
      133, 135, 137, 151, 153, 155, 157, 159, 161, 177, 179, 181, 183, 185, 187 }

\* A ratio that counts the matching characters once, not in both texts.
RoundedRatioOneSided(matches, length) ==
    IF length = 0 THEN 100 ELSE (100 * matches) \div length

\* round(2.0 * matches / length, 2) in hundredths; ratio() is 1.0 when both
\* texts are empty.
RoundedRatio(matches, length) ==
    IF length = 0 THEN 100
    ELSE LET h   == (200 * matches) \div length
             rem == (200 * matches) % length
         IN  IF 2 * rem < length THEN h
             ELSE IF 2 * rem > length THEN h + 1
             ELSE IF (2 * h + 1) % 25 = 0 THEN (IF h % 2 = 0 THEN h ELSE h + 1)
             ELSE IF (2 * h + 1) \in TiesRoundedUp THEN h + 1
             ELSE h

evaluate_answer(ans, ctx) ==
    TheOne({ TheOne({ RoundedRatio(matches, Len(a) + Len(b)) :
                      matches \in { MatchingChars(a, b, << [alo |-> 0, ahi |-> Len(a),
                                                           blo |-> 0, bhi |-> Len(b)] >>) } }) :
             a \in {Lower(ans)}, b \in {Lower(ctx)} })

(* --------------------------- context assembly --------------------------- *)

\* str.strip(): the text from its first to its last character that is not
\* whitespace.
Strip(text) ==
    LET kept == { i \in DOMAIN text : text[i] \notin Whitespace }
    IN  IF kept = {} THEN <<>>
        ELSE SubSeq(text,
                    CHOOSE i \in kept : \A j \in 1 .. i - 1 : text[j] \in Whitespace,
                    CHOOSE i \in kept : \A j \in i + 1 .. Len(text) : text[j] \in Whitespace)

\* _format_context: "[{id}]\n{content}" with the content stripped.
FormatContext(ctx) == <<"[">> \o ctx.id \o <<"]", "\n">> \o Strip(ctx.content)

\* separator="\n\n---\n\n"
Separator == <<"\n", "\n", "-", "-", "-", "\n", "\n">>

\* "\n\n...[truncated]"
TruncationMarker ==
    <<"\n", "\n", ".", ".", ".", "[", "t", "r", "u", "n", "c", "a", "t", "e", "d", "]">>

\* text[:hi] of Python: a negative hi counts from the end of the text.
SliceTo(text, hi) ==
    IF hi >= 0 THEN SubSeq(text, 1, Min(hi, Len(text)))
    ELSE SubSeq(text, 1, IF Len(text) + hi < 0 THEN 0 ELSE Len(text) + hi)

\* The loop of assemble_context_block from item n on: formatted and total
\* are its locals; the result is formatted when the loop is left.
RECURSIVE PackFrom(_, _, _, _, _, _)
PackFrom(contexts, n, formatted, total, max_chars, separator) ==
    IF n > Len(contexts) THEN formatted
    ELSE IF Len(FormatContext(contexts[n])) > max_chars /\ formatted = <<>>
         THEN << SliceTo(FormatContext(contexts[n]), max_chars - TruncationReserve)
                 \o TruncationMarker >>
    ELSE IF total + Len(FormatContext(contexts[n])) + Len(separator) > max_chars
         THEN formatted
    ELSE PackFrom(contexts, n + 1, Append(formatted, FormatContext(contexts[n])),
                  total + Len(FormatContext(contexts[n])) + Len(separator),
                  max_chars, separator)

\* separator.join(parts)
RECURSIVE JoinWith(_, _)
JoinWith(parts, separator) ==
    IF parts = <<>> THEN <<>>
    ELSE IF Len(parts) = 1 THEN parts[1]
    ELSE parts[1] \o separator \o JoinWith(Tail(parts), separator)

assemble_context_block(contexts, max_chars, separator) ==
    JoinWith(PackFrom(contexts, 1, <<>>, 0, max_chars, separator), separator)

(* ----------------------------- LocalStorage ----------------------------- *)

\* Path.resolve() of an absolute path without symbolic links: ".." drops
\* the component before it, and the parent of "/" is "/".
RECURSIVE Resolve(_, _)
Resolve(parts, acc) ==
    IF parts = <<>> THEN acc
    ELSE IF Head(parts) = Up
         THEN Resolve(Tail(parts), IF acc = <<>> THEN <<>> ELSE SubSeq(acc, 1, Len(acc) - 1))
         ELSE Resolve(Tail(parts), Append(acc, Head(parts)))

\* "/".join(parts)
RECURSIVE JoinSlash(_)
JoinSlash(parts) ==
    IF parts = <<>> THEN <<>>
    ELSE IF Len(parts) = 1 THEN parts[1]
    ELSE parts[1] \o <<"/">> \o JoinSlash(Tail(parts))

\* str(path) of an absolute path.
PathString(path) == <<"/">> \o JoinSlash(path)

\* The candidate of _path_for: (root / key).resolve().
Candidate(key) == Resolve(key, RootPath)

\* The check of _path_for: str(candidate).startswith(str(root.resolve())).
PathAccepted(key) == StartsWith(PathString(Candidate(key)), PathString(RootPath))

\* The directories above a path, "/" included.
Ancestors(path) == { SubSeq(path, 1, n) : n \in 0 .. Len(path) - 1 }

\* A file system with the file at path holding data.
WithFile(files, path, data) ==
    [ p \in DOMAIN files \cup {path} |-> IF p = path THEN data ELSE files[p] ]

\* A file system without the file at path.
WithoutFile(files, path) == [ p \in DOMAIN files \ {path} |-> files[p] ]

\* str(path.relative_to(root)) of the files below the root that rglob finds.
RelativeKeys(files) ==
    { JoinSlash(SubSeq(p, Len(RootPath) + 1, Len(p))) :
        p \in { q \in DOMAIN files :
                  Len(q) > Len(RootPath) /\ SubSeq(q, 1, Len(RootPath)) = RootPath } }

(* ---------------------------- fallback gate ----------------------------- *)

\* A gate that also refuses at the threshold itself.
FallbackGateInclusive(conf) == conf <= FallbackThreshold

\* fallback = confidence < 0.65
FallbackGate(conf) == conf < FallbackThreshold

\* The envelope query() returns when fallback is set.
FallbackEnvelope(conf) ==
    [ answer        |-> RefusalText,
      citations     |-> <<>>,
      confidence    |-> conf,
      fallback_used |-> TRUE ]

\* An answer envelope that loses the citations.
AnsweredEnvelopeNoCitations(ans, cits, conf) ==
    [ answer        |-> ans,
      citations     |-> <<>>,
      confidence    |-> conf,
      fallback_used |-> FALSE ]

\* The envelope query() returns otherwise.
AnsweredEnvelope(ans, cits, conf) ==
    [ answer        |-> ans,
      citations     |-> cits,
      confidence    |-> conf,
      fallback_used |-> FALSE ]

\* No envelope has been returned.
NoEnvelope ==
    [ answer |-> <<>>, citations |-> <<>>, confidence |-> 0 - 1, fallback_used |-> FALSE ]

(* -------------------------------- state --------------------------------- *)

VARIABLES
    index,       \* the documents of the search index
    ingests,     \* ingestion requests served so far
    stage,       \* per request: how far query() has come
    failure,     \* per request: the collaborator whose call raised, or "none"
    question,    \* per request: the question parameter
    collection,  \* per request: the collection parameter
    k,           \* per request: the k the caller asked for
    embed,       \* per request: the query vector
    results,     \* per request: what search() returned
    context,     \* per request: the context string of retrieve_context
    citations,   \* per request: the citation list of retrieve_context
    answer,      \* per request: the text generate_answer returned
    confidence,  \* per request: what evaluate_answer returned, in hundredths
    envelope,    \* per request: the response of query()
    calls        \* per request: calls made to each collaborator

VARIABLES
    chunkCall,   \* the last call of chunk_documents: its arguments and its result
    chunker,     \* the running or last call of chunk_text: arguments, locals, position
    batches,     \* the ingestions served, where a specification keeps their record
    assembly,    \* the last call of assemble_context_block: arguments, locals, result
    storage,     \* a LocalStorage: the file system, the calls made, the last call
    http         \* the metrics middleware: its metrics and the requests passing it

\* What lies aside of the index and the query requests.
aside == << chunkCall, chunker, batches, assembly, storage, http >>

\* The metrics at import and no request received: pc, path and status are
\* the position, the path and the status label of each request; incs, decs
\* and counted are what dispatch has done to the metrics for each request.
NoHttp ==
    [ pc            |-> [ h \in HttpRequests |-> "idle" ],
      path          |-> [ h \in HttpRequests |-> "/query" ],
      incs          |-> [ h \in HttpRequests |-> 0 ],
      decs          |-> [ h \in HttpRequests |-> 0 ],
      counted       |-> [ h \in HttpRequests |-> <<>> ],
      in_progress   |-> [ p \in HttpPaths |-> 0 ],
      request_count |-> [ p \in HttpPaths |->
                            [ c \in HandlerStatusCodes \cup {RaisedStatusCode} |-> 0 ] ],
      exceptions    |-> 0 ]

\* No call has been made to the LocalStorage.
NoStorageCall ==
    [ op |-> "none", key |-> <<>>, path |-> <<>>, outcome |-> "ok", value |-> 0,
      stored |-> FALSE ]

\* A LocalStorage after __post_init__: the root directory exists and holds
\* nothing; uploaded is the record of what was uploaded and not deleted since.
NewStorage ==
    [ files    |-> << >>,
      dirs     |-> Ancestors(RootPath) \cup {RootPath},
      uploaded |-> << >>,
      ops      |-> 0,
      last     |-> NoStorageCall ]

\* No call of assemble_context_block has been made: no item, an empty block.
NoAssembly ==
    [ contexts |-> <<>>, max_chars |-> DefaultMaxChars, formatted |-> <<>>, block |-> <<>> ]

\* No call of chunk_text has been made.
NoChunkText ==
    [ pc |-> "idle", text |-> <<>>, chunk_size |-> DefaultChunkSize, overlap |-> DefaultOverlap,
      words |-> <<>>, start |-> 0, chunks |-> <<>> ]

\* No call of chunk_documents has been made: no document, no chunk.
NoChunkCall == [ docs |-> <<>>, chunk_size |-> DefaultChunkSize, chunks |-> <<>> ]

vars == << aside, index, ingests, stage, failure, question, collection, k, embed,
           results, context, citations, answer, confidence, envelope, calls >>

reqVars == << stage, failure, question, collection, k, embed,
              results, context, citations, answer, confidence, envelope, calls >>

Terminal == {"ANSWERED", "FALLBACK"}

Init ==
    /\ index = {}
    /\ ingests = 0
    /\ stage = [r \in Requests |-> "IDLE"]
    /\ failure = [r \in Requests |-> "none"]
    /\ question = [r \in Requests |-> <<>>]
    /\ collection = [r \in Requests |-> "c"]
    /\ k = [r \in Requests |-> TopK]
    /\ embed = [r \in Requests |-> 0]
    /\ results = [r \in Requests |-> <<>>]
    /\ context = [r \in Requests |-> <<>>]
    /\ citations = [r \in Requests |-> <<>>]
    /\ answer = [r \in Requests |-> <<>>]
    /\ confidence = [r \in Requests |-> 0 - 1]
    /\ envelope = [r \in Requests |-> NoEnvelope]
    /\ calls = [r \in Requests |-> [embedding |-> 0, search |-> 0, completion |-> 0]]
    /\ chunkCall = NoChunkCall
    /\ chunker = NoChunkText
    /\ batches = <<>>
    /\ assembly = NoAssembly
    /\ storage = NewStorage
    /\ http = NoHttp

(* ------------------------------- actions -------------------------------- *)

\* POST /ingest: load, chunk with the default size, embed, upload.
Ingest(coll, docs, most) ==
    /\ ingests < most
    /\ index' = embed_and_store(index, chunk_documents(docs, DefaultChunkSize), coll)
    /\ ingests' = ingests + 1
    /\ UNCHANGED reqVars

\* POST /query arrives; a k in the request is not a parameter of query().
Receive(r, q, coll, kk) ==
    /\ stage[r] = "IDLE"
    /\ stage' = [stage EXCEPT ![r] = "RECEIVED"]
    /\ question' = [question EXCEPT ![r] = q]
    /\ collection' = [collection EXCEPT ![r] = coll]
    /\ k' = [k EXCEPT ![r] = kk]
    /\ UNCHANGED << aside, index, ingests, failure, embed, results, context, citations,
                    answer, confidence, envelope, calls >>

\* retrieve_context: the embedding of the question.
EmbedQuestion(r) ==
    /\ stage[r] = "RECEIVED" /\ failure[r] = "none"
    /\ embed' = [embed EXCEPT ![r] = EmbedText(question[r])]
    /\ calls' = [calls EXCEPT ![r].embedding = @ + 1]
    /\ stage' = [stage EXCEPT ![r] = "EMBEDDED"]
    /\ UNCHANGED << aside, index, ingests, failure, question, collection, k, results,
                    context, citations, answer, confidence, envelope >>

\* retrieve_context: search, then the loop over the results and the return.
SearchIndex(r) ==
    /\ stage[r] = "EMBEDDED" /\ failure[r] = "none"
    /\ \E res \in search(index, embed[r]) :
         \E cits \in CitationLists(res) :
            /\ results' = [results EXCEPT ![r] = res]
            /\ context' = [context EXCEPT ![r] = ContextOf(res)]
            /\ citations' = [citations EXCEPT ![r] = cits]
    /\ calls' = [calls EXCEPT ![r].search = @ + 1]
    /\ stage' = [stage EXCEPT ![r] = "RETRIEVED"]
    /\ UNCHANGED << aside, index, ingests, failure, question, collection, k, embed,
                    answer, confidence, envelope >>

\* A pipeline that refuses at once when nothing was retrieved, without a
\* completion call.
GenerateUnlessEmpty(r) ==
    /\ stage[r] = "RETRIEVED" /\ failure[r] = "none"
    /\ IF context[r] = <<>>
       THEN /\ envelope' = [envelope EXCEPT ![r] = FallbackEnvelope(0)]
            /\ stage' = [stage EXCEPT ![r] = "FALLBACK"]
            /\ UNCHANGED << answer, calls >>
       ELSE /\ \E text \in CompletionOutputs(context[r]) :
                 answer' = [answer EXCEPT ![r] = text]
            /\ calls' = [calls EXCEPT ![r].completion = @ + 1]
            /\ stage' = [stage EXCEPT ![r] = "GENERATED"]
            /\ UNCHANGED envelope
    /\ UNCHANGED << aside, index, ingests, failure, question, collection, k, embed,
                    results, context, citations, confidence >>

\* generate_answer: one completion call.
Generate(r) ==
    /\ stage[r] = "RETRIEVED" /\ failure[r] = "none"
    /\ \E text \in CompletionOutputs(context[r]) :
         answer' = [answer EXCEPT ![r] = text]
    /\ calls' = [calls EXCEPT ![r].completion = @ + 1]
    /\ stage' = [stage EXCEPT ![r] = "GENERATED"]
    /\ UNCHANGED << aside, index, ingests, failure, question, collection, k, embed,
                    results, context, citations, confidence, envelope >>

\* A pipeline that keeps the context in a variable of the module, which
\* every request writes: the answer is scored against the context of any
\* request that has retrieved.
EvaluateShared(r) ==
    /\ stage[r] = "GENERATED" /\ failure[r] = "none"
    /\ stage' = [stage EXCEPT ![r] = "EVALUATED"]
    /\ UNCHANGED << aside, index, ingests, failure, question, collection, k, embed,
                    results, context, citations, answer, envelope, calls >>
    /\ \E o \in Requests :
          /\ stage[o] \notin {"IDLE", "RECEIVED", "EMBEDDED"}
          /\ confidence' = [confidence EXCEPT ![r] = evaluate_answer(answer[r], context[o])]

\* evaluate_answer(answer, context)
Evaluate(r) ==
    /\ stage[r] = "GENERATED" /\ failure[r] = "none"
    /\ stage' = [stage EXCEPT ![r] = "EVALUATED"]
    /\ UNCHANGED << aside, index, ingests, failure, question, collection, k, embed,
                    results, context, citations, answer, envelope, calls >>
    /\ confidence' = [confidence EXCEPT ![r] = evaluate_answer(answer[r], context[r])]

\* A gate that builds one envelope and only sets the flag.
GateFlagOnly(r) ==
    /\ stage[r] = "EVALUATED" /\ failure[r] = "none"
    /\ envelope' = [envelope EXCEPT ![r] =
                       [ answer        |-> answer[r],
                         citations     |-> citations[r],
                         confidence    |-> confidence[r],
                         fallback_used |-> FallbackGate(confidence[r]) ]]
    /\ stage' = [stage EXCEPT ![r] =
                    IF FallbackGate(confidence[r]) THEN "FALLBACK" ELSE "ANSWERED"]
    /\ UNCHANGED << aside, index, ingests, failure, question, collection, k, embed,
                    results, context, citations, answer, confidence, calls >>

\* The gate of query(): the refusal envelope or the answer envelope.
Gate(r) ==
    /\ stage[r] = "EVALUATED" /\ failure[r] = "none"
    /\ IF FallbackGate(confidence[r])
       THEN /\ envelope' = [envelope EXCEPT ![r] = FallbackEnvelope(confidence[r])]
            /\ stage' = [stage EXCEPT ![r] = "FALLBACK"]
       ELSE /\ envelope' = [envelope EXCEPT ![r] =
                               AnsweredEnvelope(answer[r], citations[r], confidence[r])]
            /\ stage' = [stage EXCEPT ![r] = "ANSWERED"]
    /\ UNCHANGED << aside, index, ingests, failure, question, collection, k, embed,
                    results, context, citations, answer, confidence, calls >>

\* The collaborator a request at stage s calls next.
NextCollaborator(s) ==
    CASE s = "RECEIVED"  -> "embedding"
      [] s = "EMBEDDED"  -> "search"
      [] s = "RETRIEVED" -> "completion"
      [] OTHER           -> "none"

\* A pipeline that degrades when a collaborator call raises: it returns the
\* refusal envelope.
CollaboratorFailsDegrading(r) ==
    /\ failure[r] = "none"
    /\ NextCollaborator(stage[r]) # "none"
    /\ failure' = [failure EXCEPT ![r] = NextCollaborator(stage[r])]
    /\ calls' = [calls EXCEPT ![r][NextCollaborator(stage[r])] = @ + 1]
    /\ envelope' = [envelope EXCEPT ![r] = FallbackEnvelope(0)]
    /\ UNCHANGED << aside, index, ingests, stage, question, collection, k, embed,
                    results, context, citations, answer, confidence >>

\* A collaborator call raises: query() does not catch, the request ends.
CollaboratorFails(r) ==
    /\ failure[r] = "none"
    /\ NextCollaborator(stage[r]) # "none"
    /\ failure' = [failure EXCEPT ![r] = NextCollaborator(stage[r])]
    /\ calls' = [calls EXCEPT ![r][NextCollaborator(stage[r])] = @ + 1]
    /\ UNCHANGED << aside, index, ingests, stage, question, collection, k, embed,
                    results, context, citations, answer, confidence, envelope >>

\* The steps of retrieve_context.
Retrieve(r) ==
    \/ EmbedQuestion(r)
    \/ SearchIndex(r)

\* The steps query() takes once a request is in.
Advance(r) ==
    \/ Retrieve(r)
    \/ Generate(r)
    \/ Evaluate(r)
    \/ Gate(r)

\* Ingestion and the whole query pipeline, for callers that leave k at its
\* default.
Next ==
    \/ \E coll \in Collections, docs \in load_documents(QueryDocPool, MaxDocsQuery) :
          Ingest(coll, docs, MaxIngests) /\ UNCHANGED aside
    \/ \E r \in SoloRequests, q \in Questions, coll \in Collections :
          Receive(r, q, coll, TopK)
    \/ \E r \in SoloRequests : Advance(r)
    \/ \E r \in SoloRequests : CollaboratorFails(r)

Spec == Init /\ [][Next]_vars

\* A handler that is running keeps running: each blocking call returns or raises.
FairSpec == Spec /\ \A r \in SoloRequests : WF_vars(Advance(r))

\* Ingestion and retrieve_context alone, over larger batches and more
\* ingestions.  A behaviour follows a request up to the return of
\* retrieve_context: what is ingested after that return is not part of it.
RetrievalNext ==
    \/ \E coll \in Collections, docs \in load_documents(DocPool, MaxDocs) :
          /\ \A r \in SoloRequests : stage[r] # "RETRIEVED"
          /\ Ingest(coll, docs, MaxIngestsRetrieval)
          /\ UNCHANGED aside
    \/ \E r \in SoloRequests, q \in Questions, coll \in Collections, kk \in RequestedK :
          Receive(r, q, coll, kk)
    \/ \E r \in SoloRequests : Retrieve(r)
    \/ \E r \in SoloRequests : stage[r] # "RETRIEVED" /\ CollaboratorFails(r)

RetrievalSpec == Init /\ [][RetrievalNext]_vars

(* --------------------------- concurrent queries -------------------------- *)

\* Several requests in flight: the server runs each call of query() on a
\* thread of its own, and the steps of the calls and of an ingestion
\* interleave freely.
ConcurrentNext ==
    \/ \E coll \in ConcurrentCollections,
          docs \in load_documents(QueryDocPool, MaxDocsConcurrent) :
          Ingest(coll, docs, MaxIngestsConcurrent) /\ UNCHANGED aside
    \/ \E r \in Requests, q \in Questions, coll \in ConcurrentCollections :
          Receive(r, q, coll, TopK)
    \/ \E r \in Requests : Advance(r)

ConcurrentSpec == Init /\ [][ConcurrentNext]_vars

(* ---------------------------- ingestion alone ---------------------------- *)

\* POST /ingest, with a record of the batch: its collection, its chunks and
\* the calls it made to the embedding provider.
IngestLogged(coll, docs) ==
    /\ Ingest(coll, docs, MaxIngestsLogged)
    /\ batches' = Append(batches,
                     [ collection |-> coll,
                       chunks     |-> chunk_documents(docs, DefaultChunkSize),
                       embedded   |-> EmbeddingInputs(chunk_documents(docs, DefaultChunkSize)) ])
    /\ UNCHANGED << chunkCall, chunker, assembly, storage, http >>

IngestNext ==
    \E coll \in Collections, docs \in load_documents(DocPool, MaxDocs) : IngestLogged(coll, docs)

IngestSpec == Init /\ [][IngestNext]_vars

(* ------------------------- chunk_documents alone ------------------------- *)

\* The calls of chunk_documents: short documents with small windows, and the
\* long text with the default window.
ChunkInputs ==
    { [docs |-> docs, chunk_size |-> size] :
        docs \in load_documents(ChunkDocPool, MaxChunkDocs), size \in 1 .. MaxChunkSize }
    \cup { [docs |-> << [source |-> "long.txt", text |-> TextLong] >>,
            chunk_size |-> DefaultChunkSize] }

\* chunk_documents(docs, chunk_size) is called and returns.
ChunkDocuments(docs, chunk_size) ==
    /\ chunkCall' = [ docs       |-> docs,
                      chunk_size |-> chunk_size,
                      chunks     |-> chunk_documents(docs, chunk_size) ]
    /\ UNCHANGED << chunker, batches, assembly, storage, http, index, ingests, reqVars >>

ChunkNext == \E c \in ChunkInputs : ChunkDocuments(c.docs, c.chunk_size)

ChunkSpec == Init /\ [][ChunkNext]_vars

(* ---------------------------- chunk_text alone --------------------------- *)

\* chunk_text(text, chunk_size, overlap) is called: the split, the early
\* return for a text without words, the locals of the loop.
CallChunkText(text, chunk_size, overlap) ==
    /\ chunker.pc \in {"idle", "returned"}
    /\ chunker' = [ pc         |-> IF Split(text) = <<>> THEN "returned" ELSE "loop",
                    text       |-> text,
                    chunk_size |-> chunk_size,
                    overlap    |-> overlap,
                    words      |-> Split(text),
                    start      |-> 0,
                    chunks     |-> <<>> ]
    /\ UNCHANGED << chunkCall, batches, assembly, storage, http, index, ingests, reqVars >>

\* A loop without the break at the end of the words: after the last window
\* it steps back by the overlap and goes on.
LoopChunkTextNoBreak ==
    /\ chunker.pc = "loop"
    /\ Len(chunker.chunks) < MaxChunks
    /\ IF chunker.start < Len(chunker.words)
       THEN LET end   == Min(chunker.start + chunker.chunk_size, Len(chunker.words))
                chunk == JoinWords(SubSeq(chunker.words, chunker.start + 1, end))
            IN  chunker' = [ chunker EXCEPT
                               !.chunks = Append(@, chunk),
                               !.start  = NextStart(end, chunker.overlap) ]
       ELSE chunker' = [ chunker EXCEPT !.pc = "returned" ]
    /\ UNCHANGED << chunkCall, batches, assembly, storage, http, index, ingests, reqVars >>

\* One pass of the while loop of chunk_text, or its end.
LoopChunkText ==
    /\ chunker.pc = "loop"
    /\ Len(chunker.chunks) < MaxChunks
    /\ IF chunker.start < Len(chunker.words)
       THEN LET end   == Min(chunker.start + chunker.chunk_size, Len(chunker.words))
                chunk == JoinWords(SubSeq(chunker.words, chunker.start + 1, end))
            IN  chunker' = [ chunker EXCEPT
                               !.chunks = Append(@, chunk),
                               !.pc     = IF end = Len(chunker.words) THEN "returned" ELSE "loop",
                               !.start  = IF end = Len(chunker.words) THEN @
                                          ELSE NextStart(end, chunker.overlap) ]
       ELSE chunker' = [ chunker EXCEPT !.pc = "returned" ]
    /\ UNCHANGED << chunkCall, batches, assembly, storage, http, index, ingests, reqVars >>

WordNext ==
    \/ \E text \in WordTexts, chunk_size \in 1 .. MaxWindow, overlap \in 0 .. MaxWindow :
          CallChunkText(text, chunk_size, overlap)
    \/ LoopChunkText

WordSpec == Init /\ [][WordNext]_vars

\* A call of chunk_text that is in its loop goes on running.
FairWordSpec == WordSpec /\ WF_vars(LoopChunkText)

(* ---------------------- assemble_context_block alone --------------------- *)

\* assemble_context_block(contexts, max_chars=max_chars) is called and returns.
Assemble(contexts, max_chars) ==
    /\ assembly' = [ contexts  |-> contexts,
                     max_chars |-> max_chars,
                     formatted |-> PackFrom(contexts, 1, <<>>, 0, max_chars, Separator),
                     block     |-> assemble_context_block(contexts, max_chars, Separator) ]
    /\ UNCHANGED << chunkCall, chunker, batches, storage, http, index, ingests, reqVars >>

AssembleNext ==
    \E contexts \in DistinctSeqs(ContextPool, MaxContexts), max_chars \in MaxCharsChoices :
        Assemble(contexts, max_chars)

AssembleSpec == Init /\ [][AssembleNext]_vars

(* --------------------------- LocalStorage alone -------------------------- *)

\* The call record of op(key) that ended with outcome and returned value.
StorageCall(op, key, outcome, value) ==
    [ op |-> op, key |-> key, path |-> Candidate(key), outcome |-> outcome, value |-> value,
      stored |-> key \in DOMAIN storage.uploaded ]

\* upload(key, data): _path_for, the directories above the file, the write.
Upload(key, data) ==
    /\ storage.ops < MaxStorageOps
    /\ storage' =
          IF ~PathAccepted(key)
          THEN [ storage EXCEPT !.ops = @ + 1,
                                !.last = StorageCall("upload", key, "StorageError", 0) ]
          ELSE IF \E d \in Ancestors(Candidate(key)) : d \in DOMAIN storage.files
          THEN [ storage EXCEPT !.ops = @ + 1,
                                !.last = StorageCall("upload", key, "OSError", 0) ]
          ELSE IF Candidate(key) \in storage.dirs
          THEN [ storage EXCEPT !.ops = @ + 1,
                                !.dirs = @ \cup Ancestors(Candidate(key)),
                                !.last = StorageCall("upload", key, "OSError", 0) ]
          ELSE [ storage EXCEPT !.ops = @ + 1,
                                !.dirs = @ \cup Ancestors(Candidate(key)),
                                !.files = WithFile(@, Candidate(key), data),
                                !.uploaded = WithFile(@, key, data),
                                !.last = StorageCall("upload", key, "ok", 0) ]
    /\ UNCHANGED << chunkCall, chunker, batches, assembly, http, index, ingests, reqVars >>

\* download(key): _path_for, exists(), read_bytes().
Download(key) ==
    /\ storage.ops < MaxStorageOps
    /\ storage' =
          [ storage EXCEPT
              !.ops = @ + 1,
              !.last =
                  IF ~PathAccepted(key) THEN StorageCall("download", key, "StorageError", 0)
                  ELSE IF Candidate(key) \in DOMAIN storage.files
                       THEN StorageCall("download", key, "ok", storage.files[Candidate(key)])
                  ELSE IF Candidate(key) \in storage.dirs
                       THEN StorageCall("download", key, "OSError", 0)
                  ELSE StorageCall("download", key, "NotFoundError", 0) ]
    /\ UNCHANGED << chunkCall, chunker, batches, assembly, http, index, ingests, reqVars >>

\* delete(key): _path_for, unlink(); only FileNotFoundError becomes
\* NotFoundError.
Delete(key) ==
    /\ storage.ops < MaxStorageOps
    /\ storage' =
          IF ~PathAccepted(key)
          THEN [ storage EXCEPT !.ops = @ + 1,
                                !.last = StorageCall("delete", key, "StorageError", 0) ]
          ELSE IF Candidate(key) \in DOMAIN storage.files
          THEN [ storage EXCEPT !.ops = @ + 1,
                                !.files = WithoutFile(@, Candidate(key)),
                                !.uploaded = WithoutFile(@, key),
                                !.last = StorageCall("delete", key, "ok", 0) ]
          ELSE IF \/ Candidate(key) \in storage.dirs
                  \/ \E d \in Ancestors(Candidate(key)) : d \in DOMAIN storage.files
          THEN [ storage EXCEPT !.ops = @ + 1,
                                !.last = StorageCall("delete", key, "OSError", 0) ]
          ELSE [ storage EXCEPT !.ops = @ + 1,
                                !.last = StorageCall("delete", key, "NotFoundError", 0) ]
    /\ UNCHANGED << chunkCall, chunker, batches, assembly, http, index, ingests, reqVars >>

\* list_keys(prefix), read to its end: the files below the root whose
\* relative path starts with the prefix.
ListKeys(prefix) ==
    /\ storage.ops < MaxStorageOps
    /\ storage' =
          [ storage EXCEPT
              !.ops = @ + 1,
              !.last = [ op |-> "list_keys", key |-> prefix, path |-> RootPath,
                         outcome |-> "ok",
                         value |-> { rel \in RelativeKeys(storage.files) :
                                       StartsWith(rel, prefix) },
                         stored |-> FALSE ] ]
    /\ UNCHANGED << chunkCall, chunker, batches, assembly, http, index, ingests, reqVars >>

\* url(key): _path_for and as_uri(); the file system is not touched.
Url(key) ==
    /\ storage.ops < MaxStorageOps
    /\ storage' =
          [ storage EXCEPT
              !.ops = @ + 1,
              !.last = IF PathAccepted(key) THEN StorageCall("url", key, "ok", 0)
                       ELSE StorageCall("url", key, "StorageError", 0) ]
    /\ UNCHANGED << chunkCall, chunker, batches, assembly, http, index, ingests, reqVars >>

StorageNext ==
    \/ \E key \in StorageKeys, data \in StorageData : Upload(key, data)
    \/ \E key \in StorageKeys : Download(key)
    \/ \E key \in StorageKeys : Delete(key)
    \/ \E prefix \in StoragePrefixes : ListKeys(prefix)
    \/ \E key \in StorageKeys : Url(key)

StorageSpec == Init /\ [][StorageNext]_vars

(* ------------------------- MetricsMiddleware alone ----------------------- *)

\* dispatch up to its await: the gauge of the request's path goes up, the
\* handler is called.
DispatchStart(h, path) ==
    /\ http.pc[h] = "idle"
    /\ http' = [ http EXCEPT !.pc[h] = "handling",
                             !.path[h] = path,
                             !.incs[h] = @ + 1,
                             !.in_progress[path] = @ + 1 ]
    /\ UNCHANGED << chunkCall, chunker, batches, assembly, storage, index, ingests, reqVars >>

\* The finally block of dispatch: the request is counted under its status
\* label and the gauge goes down.
Finally(m, h, status_code) ==
    [ m EXCEPT !.counted[h] = Append(@, status_code),
               !.request_count[m.path[h]][status_code] = @ + 1,
               !.decs[h] = @ + 1,
               !.in_progress[m.path[h]] = @ - 1 ]

\* call_next returns a response: its status code becomes the label.
HandlerReturns(h, status_code) ==
    /\ http.pc[h] = "handling"
    /\ http' = Finally([ http EXCEPT !.pc[h] = "returned" ], h, status_code)
    /\ UNCHANGED << chunkCall, chunker, batches, assembly, storage, index, ingests, reqVars >>

\* A dispatch whose exception leaves it before the request is counted and
\* the gauge goes down.
HandlerRaisesNoFinally(h) ==
    /\ http.pc[h] = "handling"
    /\ http' = [ http EXCEPT !.pc[h] = "raised", !.exceptions = @ + 1 ]
    /\ UNCHANGED << chunkCall, chunker, batches, assembly, storage, index, ingests, reqVars >>

\* call_next raises: the exception is counted and raised again, after the
\* finally block with the label "500".
HandlerRaises(h) ==
    /\ http.pc[h] = "handling"
    /\ http' = Finally([ http EXCEPT !.pc[h] = "raised", !.exceptions = @ + 1 ],
                       h, RaisedStatusCode)
    /\ UNCHANGED << chunkCall, chunker, batches, assembly, storage, index, ingests, reqVars >>

\* The requests run on one event loop: what dispatch does before and after
\* its await is one step each, and the steps of the requests interleave.
MetricsNext ==
    \/ \E h \in HttpRequests, path \in HttpPaths : DispatchStart(h, path)
    \/ \E h \in HttpRequests, status_code \in HandlerStatusCodes :
          HandlerReturns(h, status_code)
    \/ \E h \in HttpRequests : HandlerRaises(h)

MetricsSpec == Init /\ [][MetricsNext]_vars

(* ------------------------------ properties ------------------------------ *)

\* retrieve_context has returned for request r.
Retrieved(r) == stage[r] \in {"RETRIEVED", "GENERATED", "EVALUATED", "ANSWERED", "FALLBACK"}

\* The id is one upload_embeddings gives to an entry of the collection.
InCollection(id, coll) == \E i \in 0 .. MaxDocs : id = FormatId(coll, i)

\* C1: the envelope of a query has fallback_used = TRUE exactly when the
\* confidence computed for the request is strictly below 0.65; 0.65 itself
\* is answered, 0.64 is refused.
C1_FallbackIffBelowThreshold ==
    \A r \in Requests :
        stage[r] \in Terminal =>
            /\ envelope[r].fallback_used <=> confidence[r] < 65
            /\ stage[r] = "FALLBACK" <=> envelope[r].fallback_used
            /\ confidence[r] = 65 => ~envelope[r].fallback_used
            /\ confidence[r] = 64 => envelope[r].fallback_used

\* A request answered with a confidence of exactly 0.65.
C1_Witness ==
    \E r \in Requests :
        stage[r] = "ANSWERED" /\ confidence[r] = 65 /\ ~envelope[r].fallback_used

\* C2: a query that ends in FALLBACK returns the refusal text, no citation,
\* the confidence computed for it and fallback_used = TRUE; the generated
\* text and the retrieved sources stay out of the envelope.
C2_FallbackEnvelopeIsRefusal ==
    \A r \in Requests :
        stage[r] = "FALLBACK" =>
            /\ envelope[r].answer = RefusalText
            /\ envelope[r].citations = <<>>
            /\ envelope[r].confidence = confidence[r]
            /\ envelope[r].fallback_used = TRUE
            /\ envelope[r].answer # answer[r]

\* A refused request that had retrieved sources and a generated text.
C2_Witness ==
    \E r \in Requests :
        /\ stage[r] = "FALLBACK"
        /\ citations[r] # <<>>
        /\ answer[r] # <<>>
        /\ envelope[r].confidence = 64

\* C3: a query that ends in ANSWERED returns the text of the completion
\* provider, the citations of its retrieval, the confidence computed for it
\* and fallback_used = FALSE.
C3_AnsweredEnvelopeIsGenerated ==
    \A r \in Requests :
        stage[r] = "ANSWERED" =>
            /\ envelope[r].answer = answer[r]
            /\ envelope[r].citations = citations[r]
            /\ Range(envelope[r].citations) =
                   { results[r][n].source : n \in DOMAIN results[r] }
            /\ envelope[r].confidence = confidence[r]
            /\ envelope[r].fallback_used = FALSE

\* An answered request with a generated text and two citations.
C3_Witness ==
    \E r \in Requests :
        /\ stage[r] = "ANSWERED"
        /\ answer[r] # <<>>
        /\ Len(envelope[r].citations) = 2

\* The stage a request may move to from stage s.
StageAfter(s) ==
    CASE s = "IDLE"      -> {"RECEIVED"}
      [] s = "RECEIVED"  -> {"EMBEDDED"}
      [] s = "EMBEDDED"  -> {"RETRIEVED"}
      [] s = "RETRIEVED" -> {"GENERATED"}
      [] s = "GENERATED" -> {"EVALUATED"}
      [] s = "EVALUATED" -> {"ANSWERED", "FALLBACK"}
      [] OTHER           -> {}

\* The calls a request that got to stage s without a failure has made.
CallsAt(s) ==
    [ embedding  |-> IF s \in {"IDLE", "RECEIVED"} THEN 0 ELSE 1,
      search     |-> IF s \in {"IDLE", "RECEIVED", "EMBEDDED"} THEN 0 ELSE 1,
      completion |-> IF s \in {"IDLE", "RECEIVED", "EMBEDDED", "RETRIEVED"} THEN 0 ELSE 1 ]

\* C4: a request goes RECEIVED, EMBEDDED, RETRIEVED, GENERATED, EVALUATED in
\* that order, one stage at a time and never back, then to ANSWERED or to
\* FALLBACK and no further; unless a collaborator fails it gets there; and
\* it has then called the embedding, the search and the completion once each.
C4_LinearPipeline ==
    /\ [][ \A r \in Requests :
             stage'[r] # stage[r] => stage'[r] \in StageAfter(stage[r]) ]_vars
    /\ [] ( \A r \in Requests :
              /\ failure[r] = "none" => calls[r] = CallsAt(stage[r])
              /\ stage[r] \in Terminal =>
                    /\ failure[r] = "none"
                    /\ calls[r] = [embedding |-> 1, search |-> 1, completion |-> 1] )
    /\ \A r \in Requests :
          (stage[r] = "RECEIVED") ~> (stage[r] \in Terminal \/ failure[r] # "none")

\* A refused request, with one call made to each collaborator.
C4_Witness ==
    \E r \in Requests :
        /\ stage[r] = "FALLBACK"
        /\ failure[r] = "none"
        /\ calls[r] = [embedding |-> 1, search |-> 1, completion |-> 1]
        /\ results[r] = <<>>

\* C5: retrieval for a collection uses only the index entries stored under
\* that collection: no hit, and so no part of the context or the citations,
\* comes from an entry ingested under another collection.
C5_RetrievalWithinCollection ==
    \A r \in Requests :
        Retrieved(r) =>
            \A n \in DOMAIN results[r] : InCollection(results[r][n].id, collection[r])

\* C6: retrieval uses at most the k hits the caller asked for, the k best
\* by score, best first.
C6_RetrievalHonoursK ==
    \A r \in Requests :
        Retrieved(r) =>
            /\ Len(results[r]) <= k[r]
            /\ \A m, n \in DOMAIN results[r] :
                  m < n => results[r][m].score >= results[r][n].score

\* The offset in the joined context at which the content of hit n begins.
RECURSIVE OffsetOfHit(_, _)
OffsetOfHit(res, n) ==
    IF n = 1 THEN 0 ELSE OffsetOfHit(res, n - 1) + Len(res[n - 1].content) + 1

\* C7: the context returned by retrieval is the contents of the hits in the
\* order search returned them, one newline between two neighbours, nothing
\* before, after or besides.
C7_ContextIsJoinedContents ==
    \A r \in Requests :
        Retrieved(r) =>
            LET res == results[r]
                ctx == context[r]
            IN  /\ res = <<>> => ctx = <<>>
                /\ res # <<>> =>
                      Len(ctx) = OffsetOfHit(res, Len(res)) + Len(res[Len(res)].content)
                /\ \A n \in DOMAIN res :
                      /\ SubSeq(ctx, OffsetOfHit(res, n) + 1,
                                OffsetOfHit(res, n) + Len(res[n].content)) = res[n].content
                      /\ n < Len(res) =>
                            ctx[OffsetOfHit(res, n) + Len(res[n].content) + 1] = "\n"

\* A retrieval that used five hits of more than one content.
C7_Witness ==
    \E r \in Requests :
        /\ stage[r] = "RETRIEVED"
        /\ Len(results[r]) = 5
        /\ Cardinality({ results[r][n].content : n \in DOMAIN results[r] }) = 3

\* C8: the citations returned by retrieval hold each source of the hits once
\* and nothing else.
C8_CitationsAreDistinctSources ==
    \A r \in Requests :
        Retrieved(r) =>
            /\ Range(citations[r]) = { results[r][n].source : n \in DOMAIN results[r] }
            /\ \A m, n \in DOMAIN citations[r] :
                  citations[r][m] = citations[r][n] => m = n

\* Three hits from two sources, two of them from a.txt, and two citations.
C8_Witness ==
    \E r \in Requests :
        /\ stage[r] = "RETRIEVED"
        /\ Len(results[r]) = 3
        /\ Cardinality({ n \in DOMAIN results[r] : results[r][n].source = "a.txt" }) = 2
        /\ Cardinality({ n \in DOMAIN results[r] : results[r][n].source = "b.txt" }) = 1
        /\ Len(citations[r]) = 2
        /\ Range(citations[r]) = {"a.txt", "b.txt"}

\* C9: when search returns no hit, retrieval returns an empty context and an
\* empty citation list, and the request goes on.
C9_ZeroHitsGiveEmptyResult ==
    \A r \in Requests :
        Retrieved(r) /\ results[r] = <<>> =>
            /\ context[r] = <<>>
            /\ citations[r] = <<>>
            /\ failure[r] \notin {"embedding", "search"}

\* A retrieval over an empty index that has returned.
C9_Witness ==
    \E r \in Requests :
        /\ stage[r] = "RETRIEVED"
        /\ calls[r].search = 1
        /\ index = {}
        /\ results[r] = <<>>

\* The entries of the index stored under a collection.
CollectionEntries(idx, coll) == { e \in idx : InCollection(e.id, coll) }

\* C10: a query against a collection that holds no entry ends in FALLBACK
\* with no citation, whatever the completion provider returned.  Entries are
\* never removed, so a collection empty now was empty when it was searched.
C10_EmptyCollectionFallsBack ==
    \A r \in Requests :
        stage[r] \in Terminal /\ CollectionEntries(index, collection[r]) = {} =>
            /\ stage[r] = "FALLBACK"
            /\ envelope[r].citations = <<>>
            /\ confidence[r] < 65

\* The chunks the last call of chunk_documents cut from the document src.
ChunksFrom(src) == SelectSeq(chunkCall.chunks, LAMBDA c : c.source = src)

RECURSIVE Concat(_)
Concat(texts) == IF texts = <<>> THEN <<>> ELSE Head(texts) \o Concat(Tail(texts))

\* C11: for every document of a call of chunk_documents with chunk_size >= 1,
\* the texts of the document's chunks, concatenated in output order, are the
\* text of the document.
C11_ChunksCoverDocument ==
    chunkCall.chunk_size >= 1 =>
        \A n \in DOMAIN chunkCall.docs :
            LET cs == ChunksFrom(chunkCall.docs[n].source)
            IN  Concat([ i \in DOMAIN cs |-> cs[i].text ]) = chunkCall.docs[n].text

\* The text of seven characters cut with chunk_size 4: a chunk of 4 and one of 3.
C11_Witness ==
    /\ chunkCall.chunk_size = 4
    /\ \E n \in DOMAIN chunkCall.docs :
          /\ chunkCall.docs[n].text = TextC
          /\ Len(ChunksFrom(chunkCall.docs[n].source)) = 2
          /\ Len(ChunksFrom(chunkCall.docs[n].source)[2].text) = 3

CeilDiv(n, d) == (n + d - 1) \div d

\* C12: every chunk has at most chunk_size characters, every chunk of a
\* document but its last has exactly chunk_size, a document of n characters
\* gives ceil(n / chunk_size) chunks, and 1200 characters with chunk_size 500
\* give chunks of 500, 500 and 200 characters.
C12_ChunkSizes ==
    chunkCall.chunk_size >= 1 =>
        \A n \in DOMAIN chunkCall.docs :
            LET cs   == ChunksFrom(chunkCall.docs[n].source)
                size == chunkCall.chunk_size
                len  == Len(chunkCall.docs[n].text)
            IN  /\ \A i \in DOMAIN cs : Len(cs[i].text) <= size
                /\ \A i \in DOMAIN cs : i < Len(cs) => Len(cs[i].text) = size
                /\ Len(cs) = CeilDiv(len, size)
                /\ len = 1200 /\ size = 500 =>
                      [ i \in DOMAIN cs |-> Len(cs[i].text) ] = <<500, 500, 200>>

\* The text of 1200 characters cut with chunk_size 500 into three chunks.
C12_Witness ==
    /\ chunkCall.chunk_size = 500
    /\ Len(chunkCall.docs) = 1
    /\ Len(chunkCall.docs[1].text) = 1200
    /\ Len(chunkCall.chunks) = 3
    /\ Len(chunkCall.chunks[3].text) = 200

\* The place in docs of the document named src.
DocIndex(docs, src) == CHOOSE n \in DOMAIN docs : docs[n].source = src

\* docs without the documents whose text is empty.
NonEmptyDocs(docs) == SelectSeq(docs, LAMBDA d : d.text # <<>>)

\* C15: every chunk carries the source of the document it was cut from, the
\* chunks of a document come in the order of their place in its text (and
\* the documents in the order given), and a document with empty text gives
\* no chunk and leaves the chunks of the others as they would be without it.
C15_ChunksKeepSourceAndOrder ==
    LET docs   == chunkCall.docs
        chunks == chunkCall.chunks
        size   == chunkCall.chunk_size
    IN  /\ \A i \in DOMAIN chunks : \E n \in DOMAIN docs : chunks[i].source = docs[n].source
        /\ \A i, j \in DOMAIN chunks :
              i < j => DocIndex(docs, chunks[i].source) <= DocIndex(docs, chunks[j].source)
        /\ \A n \in DOMAIN docs :
              LET cs == ChunksFrom(docs[n].source)
              IN  /\ \A i \in DOMAIN cs :
                        cs[i].text = SubSeq(docs[n].text, (i - 1) * size + 1,
                                            Min(i * size, Len(docs[n].text)))
                  /\ docs[n].text = <<>> => cs = <<>>
        /\ chunks = chunk_documents(NonEmptyDocs(docs), size)

\* An empty document between two documents that were each cut into chunks.
C15_Witness ==
    /\ Len(chunkCall.docs) = 3
    /\ chunkCall.docs[1].text # <<>>
    /\ chunkCall.docs[2].text = <<>>
    /\ chunkCall.docs[3].text # <<>>
    /\ Len(ChunksFrom(chunkCall.docs[1].source)) >= 2
    /\ Len(ChunksFrom(chunkCall.docs[3].source)) >= 2

\* The last n words of a chunk and its first n words.
LastWords(chunk, n) == SubSeq(Split(chunk), Len(Split(chunk)) - n + 1, Len(Split(chunk)))

FirstWords(chunk, n) == SubSeq(Split(chunk), 1, n)

C14_NonAdvancingWindowRejected ==
    /\ chunker.pc # "idle" /\ chunker.overlap >= chunker.chunk_size =>
          chunker.pc = "ConfigError" /\ chunker.chunks = <<>>
    /\ chunker.pc = "loop" /\ chunker.chunks # <<>> => chunker.start > 0

\* The entries of the index with the id of position i of a collection.
EntriesAt(coll, i) == { e \in index : e.id = FormatId(coll, i) }

\* C16: an ingestion calls the embedding provider once, with the texts of
\* all its chunks in chunk order, and the entry it leaves at position i has
\* the id of (collection, i), the vector of the i-th text, and the text and
\* the source of chunk i.
C16_BatchEmbeddedOnceAndPairedByPosition ==
    batches # <<>> =>
        LET b == batches[Len(batches)]
        IN  /\ Len(b.embedded) = 1
            /\ b.embedded[1] = [ n \in DOMAIN b.chunks |-> b.chunks[n].text ]
            /\ \A n \in DOMAIN b.chunks :
                  EntriesAt(b.collection, n - 1) =
                      { [ id      |-> FormatId(b.collection, n - 1),
                          content |-> b.chunks[n].text,
                          source  |-> b.chunks[n].source,
                          vector  |-> EmbedText(b.embedded[1][n]) ] }

\* A batch of three chunks whose vectors all differ.
C16_Witness ==
    /\ batches # <<>>
    /\ Len(batches[Len(batches)].chunks) = 3
    /\ Cardinality({ e.vector : e \in CollectionEntries(index, batches[Len(batches)].collection) }) = 3

\* The batches ingested into a collection, in order.
BatchesInto(coll) == SelectSeq(batches, LAMBDA b : b.collection = coll)

\* The size of the largest batch ingested into a collection, 0 without one.
LargestBatch(coll) ==
    IF BatchesInto(coll) = <<>> THEN 0
    ELSE CHOOSE n \in 0 .. MaxDocs :
            /\ \E i \in DOMAIN BatchesInto(coll) : Len(BatchesInto(coll)[i].chunks) = n
            /\ \A i \in DOMAIN BatchesInto(coll) : Len(BatchesInto(coll)[i].chunks) <= n

\* C17: after a batch of n chunks and then a batch of m < n chunks into the
\* same collection, positions 0..m-1 hold the second batch and positions
\* m..n-1 still hold the first; a collection holds as many entries as its
\* largest batch had chunks.
C17_SmallerBatchLeavesStaleTail ==
    \A coll \in Collections :
        LET bs == BatchesInto(coll)
        IN  /\ Len(bs) >= 2 /\ Len(bs[Len(bs)].chunks) < Len(bs[Len(bs) - 1].chunks) =>
                  LET first  == bs[Len(bs) - 1].chunks
                      second == bs[Len(bs)].chunks
                  IN  /\ \A i \in 0 .. Len(second) - 1 :
                            /\ EntriesAt(coll, i) # {}
                            /\ \A e \in EntriesAt(coll, i) :
                                  e.content = second[i + 1].text /\ e.source = second[i + 1].source
                      /\ \A i \in Len(second) .. Len(first) - 1 :
                            /\ EntriesAt(coll, i) # {}
                            /\ \A e \in EntriesAt(coll, i) :
                                  e.content = first[i + 1].text /\ e.source = first[i + 1].source
            /\ Cardinality(CollectionEntries(index, coll)) = LargestBatch(coll)

\* Three chunks, then one chunk of another file into the same collection:
\* three entries, the first of them from the second batch.
C17_Witness ==
    \E coll \in Collections :
        /\ Len(BatchesInto(coll)) = 2
        /\ Len(BatchesInto(coll)[1].chunks) = 3
        /\ Len(BatchesInto(coll)[2].chunks) = 1
        /\ BatchesInto(coll)[2].chunks[1].source # BatchesInto(coll)[1].chunks[1].source
        /\ Cardinality(CollectionEntries(index, coll)) = 3

\* The first item of the last call of assemble_context_block, formatted, is
\* longer than max_chars.
FirstItemOversized ==
    /\ assembly.contexts # <<>>
    /\ Len(FormatContext(assembly.contexts[1])) > assembly.max_chars

\* C18: the block assemble_context_block returns is no longer than
\* max_chars, except when the first formatted item alone is longer than
\* max_chars: then it is no longer than max_chars - 100 plus the length of
\* the truncation marker.
C18_BlockWithinMaxChars ==
    IF FirstItemOversized
    THEN Len(assembly.block) <= assembly.max_chars - 100 + Len(TruncationMarker)
    ELSE Len(assembly.block) <= assembly.max_chars

\* C19: when the call had at least one context item, the block holds the
\* first item: whole, or cut short and followed by the truncation marker.
C19_FirstItemAlwaysPresent ==
    assembly.contexts # <<>> =>
        \/ StartsWith(assembly.block, FormatContext(assembly.contexts[1]))
        \/ \E n \in 0 .. Len(FormatContext(assembly.contexts[1])) :
              assembly.block = SubSeq(FormatContext(assembly.contexts[1]), 1, n) \o TruncationMarker

\* The first n items of the last call, formatted.
Pieces(n) == [ i \in 1 .. n |-> FormatContext(assembly.contexts[i]) ]

\* The length of the block of the first n - 1 items with item n and its
\* separator appended.
AppendedLength(n) ==
    Len(JoinWith(Pieces(n - 1), Separator)) + Len(Separator) + Len(Pieces(n)[n])

\* C20: unless the first item is oversized, the block is the first j items
\* of the call, whole and in order, joined by the separator, where every
\* one of them fitted when it was appended with its separator, and item
\* j + 1, if there is one, does not fit.
C20_GreedyPrefixPacking ==
    ~FirstItemOversized =>
        \E j \in 0 .. Len(assembly.contexts) :
            /\ assembly.block = JoinWith(Pieces(j), Separator)
            /\ \A n \in 1 .. j : AppendedLength(n) <= assembly.max_chars
            /\ j < Len(assembly.contexts) => AppendedLength(j + 1) > assembly.max_chars

\* C21: when the completion provider returns the retrieved context itself
\* and that context is not empty, the confidence is at least 0.65 and the
\* request ends in ANSWERED, with the echoed text as answer, the sources of
\* the hits as citations and fallback_used = FALSE.
C21_EchoedContextIsAnswered ==
    \A r \in Requests :
        answer[r] = context[r] /\ context[r] # <<>> =>
            /\ stage[r] \in {"EVALUATED"} \cup Terminal => confidence[r] >= 65
            /\ stage[r] \in Terminal =>
                  /\ stage[r] = "ANSWERED"
                  /\ envelope[r].answer = context[r]
                  /\ Range(envelope[r].citations) =
                         { results[r][n].source : n \in DOMAIN results[r] }
                  /\ envelope[r].fallback_used = FALSE

\* An answered request whose answer is its context, retrieved from two hits.
C21_Witness ==
    \E r \in Requests :
        /\ stage[r] = "ANSWERED"
        /\ Len(results[r]) = 2
        /\ answer[r] = context[r]
        /\ envelope[r].answer = ContextOf(results[r])
        /\ envelope[r].citations # <<>>

\* The collaborators in the order query() calls them.
CollaboratorOrder == <<"embedding", "search", "completion">>

\* The place of a collaborator in that order.
CollaboratorPlace(c) == CHOOSE n \in DOMAIN CollaboratorOrder : CollaboratorOrder[n] = c

\* What belongs to request r.
RequestState(r) ==
    << stage[r], failure[r], question[r], collection[r], k[r], embed[r], results[r],
       context[r], citations[r], answer[r], confidence[r], envelope[r], calls[r] >>

\* C22: when the embedding, the search or the completion call of a request
\* raises, the request has no envelope and is at no terminal stage, the
\* call that raised was made once, no collaborator after it was called, and
\* nothing of the request changes afterwards.
C22_CollaboratorFailurePropagates ==
    /\ [] ( \A r \in Requests :
              failure[r] # "none" =>
                  /\ envelope[r] = NoEnvelope
                  /\ stage[r] \notin Terminal
                  /\ \A n \in DOMAIN CollaboratorOrder :
                        calls[r][CollaboratorOrder[n]] =
                            IF n <= CollaboratorPlace(failure[r]) THEN 1 ELSE 0 )
    /\ [][ \A r \in Requests :
             failure[r] # "none" => RequestState(r)' = RequestState(r) ]_vars

\* The completion call of a request raised, after a retrieval with hits.
C22_Witness ==
    \E r \in Requests :
        /\ failure[r] = "completion"
        /\ stage[r] = "RETRIEVED"
        /\ results[r] # <<>>
        /\ calls[r] = [embedding |-> 1, search |-> 1, completion |-> 1]

\* The envelope query() computes from what request r retrieved and what the
\* completion provider returned to it, with nothing else in play.
EnvelopeAlone(r) ==
    IF FallbackGate(evaluate_answer(answer[r], ContextOf(results[r])))
    THEN FallbackEnvelope(evaluate_answer(answer[r], ContextOf(results[r])))
    ELSE AnsweredEnvelope(answer[r], citations[r],
                          evaluate_answer(answer[r], ContextOf(results[r])))

\* C23: under every interleaving of the steps of the requests in flight, a
\* step of one request leaves what belongs to the others as it was; what a
\* request retrieves is an answer of the index as it is when the request
\* searches, for the request's own question; and the envelope of a request
\* is the one query() computes from its own retrieval and its own
\* completion.
C23_ConcurrentRequestsIndependent ==
    /\ [][ \A r \in Requests :
             RequestState(r)' # RequestState(r) =>
                 /\ \A o \in Requests \ {r} : RequestState(o)' = RequestState(o)
                 /\ stage[r] = "EMBEDDED" =>
                       /\ results'[r] \in search(index, EmbedText(question[r]))
                       /\ citations'[r] \in CitationLists(results'[r]) ]_vars
    /\ [] ( \A r \in Requests :
              /\ stage[r] \in {"GENERATED", "EVALUATED"} \cup Terminal =>
                    answer[r] \in CompletionOutputs(ContextOf(results[r]))
              /\ stage[r] \in Terminal => envelope[r] = EnvelopeAlone(r) )

\* Two requests that ended differently: one searched before the ingestion
\* and one after it.
C23_Witness ==
    \E r, o \in Requests :
        /\ stage[r] = "ANSWERED" /\ results[r] # <<>>
        /\ stage[o] = "FALLBACK" /\ results[o] = <<>> /\ answer[o] # <<>>
        /\ index # {}

\* The words of the chunks of the running or last call of chunk_text, each
\* chunk after the first without its first overlap words.
RECURSIVE NewWords(_)
NewWords(n) ==
    IF n = 0 THEN <<>>
    ELSE NewWords(n - 1)
         \o SubSeq(Split(chunker.chunks[n]),
                   (IF n = 1 THEN 0 ELSE chunker.overlap) + 1,
                   Len(Split(chunker.chunks[n])))

\* C24: a call of chunk_text with 0 <= overlap < chunk_size returns; while
\* it runs each window starts chunk_size - overlap words after the one
\* before; when it has returned, the last chunk ends with the last word of
\* the text, and the chunks, each taken without the overlap words it shares
\* with the one before, are the words of the text in order, so that every
\* word is in a chunk.
C24_WordWindowTerminatesAndCovers ==
    /\ (chunker.pc = "loop" /\ chunker.overlap < chunker.chunk_size)
           ~> (chunker.pc = "returned")
    /\ [][ /\ chunker.pc = "loop" /\ chunker'.pc = "loop"
           /\ chunker.overlap < chunker.chunk_size
           => chunker'.start = chunker.start + chunker.chunk_size - chunker.overlap ]_vars
    /\ [] ( chunker.pc = "returned" /\ chunker.overlap < chunker.chunk_size =>
              /\ NewWords(Len(chunker.chunks)) = Split(chunker.text)
              /\ Split(chunker.text) # <<>> =>
                    /\ chunker.chunks # <<>>
                    /\ LastWords(chunker.chunks[Len(chunker.chunks)], 1)
                          = SubSeq(Split(chunker.text), Len(Split(chunker.text)),
                                   Len(Split(chunker.text))) )

\* Five words cut with chunk_size 2 and overlap 1 into four chunks, the call
\* returned.
C24_Witness ==
    /\ chunker.pc = "returned"
    /\ chunker.chunk_size = 2
    /\ chunker.overlap = 1
    /\ Len(chunker.words) = 5
    /\ Len(chunker.chunks) = 4

\* The ids a context item may carry.
IdTexts == { c.id : c \in ContextPool }

\* The context items made of the hits res, hit n with the id ids[n].
ContextItems(res, ids) == [ n \in DOMAIN res |-> [id |-> ids[n], content |-> res[n].content] ]

\* C25: the context a request hands to the completion provider is the block
\* assemble_context_block makes of its hits with the default max_chars, and
\* it is no longer than that max_chars.
C25_PromptContextIsAssembledBlock ==
    \A r \in Requests :
        Retrieved(r) =>
            /\ Len(context[r]) <= DefaultMaxChars
            /\ \E ids \in [DOMAIN results[r] -> IdTexts] :
                  context[r] = assemble_context_block(ContextItems(results[r], ids),
                                                      DefaultMaxChars, Separator)

\* The path is the root directory or lies below it.
InsideRoot(path) ==
    Len(path) >= Len(RootPath) /\ SubSeq(path, 1, Len(RootPath)) = RootPath

\* C26: LocalStorage stays inside its root: a call whose key _path_for did
\* not refuse with StorageError worked on a path inside the root, and the
\* file system holds no file and no directory made outside the root.
C26_StorageStaysInsideRoot ==
    /\ storage.last.op \in {"upload", "download", "delete", "url"}
          /\ storage.last.outcome # "StorageError" => InsideRoot(storage.last.path)
    /\ \A p \in DOMAIN storage.files : InsideRoot(p)
    /\ \A d \in storage.dirs : InsideRoot(d) \/ d \in Ancestors(RootPath)

\* C27: LocalStorage is a key/value store.  For a key _path_for accepts,
\* download returns the bytes last uploaded under the key and not deleted
\* since, and raises NotFoundError when there are none; delete succeeds on
\* a stored key and raises NotFoundError on any other; list_keys(prefix)
\* yields exactly the stored keys that start with the prefix.
C27_StorageIsKeyValueStore ==
    /\ storage.last.op = "download" /\ storage.last.outcome # "StorageError" =>
          IF storage.last.stored
          THEN /\ storage.last.outcome = "ok"
               /\ storage.last.value = storage.uploaded[storage.last.key]
          ELSE storage.last.outcome = "NotFoundError"
    /\ storage.last.op = "delete" /\ storage.last.outcome # "StorageError" =>
          storage.last.outcome = IF storage.last.stored THEN "ok" ELSE "NotFoundError"
    /\ storage.last.op = "list_keys" =>
          storage.last.value =
              { JoinSlash(key) : key \in { u \in DOMAIN storage.uploaded :
                                              StartsWith(JoinSlash(u), storage.last.key) } }

\* The requests on a path that are at one of the positions.
RequestsAt(path, positions) ==
    { h \in HttpRequests : http.pc[h] \in positions /\ http.path[h] = path }

\* C28: for every request the gauge went up once when dispatch began and
\* down once when it ended, by return or by exception, and the request was
\* counted once at its end, under "500" when the handler raised; the gauge
\* of a path is the number of requests in flight on it, never negative, and
\* zero when all requests have ended; the counter of a path and status is
\* the number of requests that ended so.
C28_MetricsBalanced ==
    /\ \A h \in HttpRequests :
          /\ http.incs[h] = IF http.pc[h] = "idle" THEN 0 ELSE 1
          /\ http.decs[h] = IF http.pc[h] \in {"returned", "raised"} THEN 1 ELSE 0
          /\ Len(http.counted[h]) = http.decs[h]
          /\ http.pc[h] = "raised" => http.counted[h] = <<"500">>
    /\ \A p \in HttpPaths :
          /\ http.in_progress[p] = Cardinality(RequestsAt(p, {"handling"}))
          /\ http.in_progress[p] >= 0
          /\ (\A h \in HttpRequests : http.pc[h] # "handling") => http.in_progress[p] = 0
          /\ \A c \in DOMAIN http.request_count[p] :
                http.request_count[p][c] =
                    Cardinality({ h \in RequestsAt(p, {"returned", "raised"}) :
                                    http.counted[h] = <<c>> })

\* On one path a request has returned, one has raised and one is in flight.
C28_Witness ==
    \E p \in HttpPaths :
        /\ Cardinality(RequestsAt(p, {"returned"})) = 1
        /\ Cardinality(RequestsAt(p, {"raised"})) = 1
        /\ http.in_progress[p] = 1
        /\ http.request_count[p]["500"] = 1

\* The chunk that the last batch into a collection with a chunk at position
\* i had there.
LastChunkAt(coll, i) ==
    LET bs   == BatchesInto(coll)
        with == { n \in DOMAIN bs : Len(bs[n].chunks) > i }
    IN  bs[CHOOSE n \in with : \A m \in with : m <= n].chunks[i + 1]

\* The ids of the compared collection names and positions are equal only
\* where both the name and the position are: there are as many ids as
\* there are pairs of a name and a position.
IdsDistinct ==
    Cardinality({ FormatId(c, i) : c \in IdCollections, i \in 0 .. MaxPosition })
        = Cardinality(IdCollections) * (MaxPosition + 1)

\* C29: two ids are equal only when collection and position are both
\* equal, also for collection names with '-' or digits in them; so the
\* entry the index holds for a position of a collection is the chunk of the
\* last batch into that collection that had the position, whatever was
\* ingested into other collections in between.
C29_IdsInjective ==
    /\ IdsDistinct
    /\ \A coll \in Collections : \A i \in 0 .. MaxDocs - 1 :
          IF \E n \in DOMAIN BatchesInto(coll) : Len(BatchesInto(coll)[n].chunks) > i
          THEN /\ Cardinality(EntriesAt(coll, i)) = 1
               /\ \A e \in EntriesAt(coll, i) :
                     /\ e.content = LastChunkAt(coll, i).text
                     /\ e.source = LastChunkAt(coll, i).source
          ELSE EntriesAt(coll, i) = {}

\* Two files in collection "c" and then another file in collection "c-1":
\* the ids "c-1" and "c-1-0" are both in the index, with different contents.
C29_Witness ==
    /\ Len(batches) = 2
    /\ batches[1].collection = "c" /\ Len(batches[1].chunks) >= 2
    /\ batches[2].collection = "c-1" /\ Len(batches[2].chunks) >= 1
    /\ batches[1].chunks[2].text # batches[2].chunks[1].text
    /\ \E e \in index : e.id = "c-1" /\ e.content = batches[1].chunks[2].text
    /\ \E e \in index : e.id = "c-1-0" /\ e.content = batches[2].chunks[1].text

====
